---- MODULE Spec2Model ----
(***************************************************************************)
(* The authenticated request pipeline of UmamiApiClient                    *)
(* (src/src/UmamiApiClient.ts): the constructor fires POST /auth/login and *)
(* keeps the pending response as #auth; every request of the axios         *)
(* instance first runs the request interceptor #verifyAuth, which lets     *)
(* /auth/login and /collect through, awaits #auth, sets the Authorization  *)
(* header and, when more than an hour passed since #lastAuthCheck, issues   *)
(* GET /auth/verify and awaits it before the request is dispatched.         *)
(*                                                                         *)
(* Requests are numbered: LoginId is the constructor's login, Callers are  *)
(* the requests of public methods, Child(r) is the GET /auth/verify that   *)
(* the interceptor issues on behalf of caller r.  Every request, the login *)
(* and the verifications included, goes through the same interceptor.      *)
(* Time is in milliseconds, as returned by Date.now().                     *)
(***************************************************************************)
EXTENDS Integers, Sequences, FiniteSets, TLC

\* Number of requests the caller issues on the client.
NReq == 2
\* Number of times the clock is observed to advance.
MaxTicks == 3

\* 60 * 60 * 1000, the re-verification period of #verifyAuth.
HOUR == 60 * 60 * 1000
\* Amounts by which the wall clock advances between two steps.
ClockSteps == {1, 30 * 60 * 1000, 61 * 60 * 1000}
\* Tokens the server may answer the login with.
Tokens == {"tokA", "tokB"}

LoginId == 0
Callers == 1..NReq
Child(r) == r + NReq
Children == {Child(r) : r \in Callers}
Ids == {LoginId} \cup Callers \cup Children

LoginUrl == "/auth/login"
CollectUrl == "/collect"
VerifyUrl == "/auth/verify"
WebsitesUrl == "/websites"
\* Targets of the public methods: collect() and the authenticated getters.
CallerUrls == {CollectUrl, WebsitesUrl}
Urls == {LoginUrl, CollectUrl, VerifyUrl, WebsitesUrl}

\* No synchronous call is being followed.
NoCall == [fn |-> "none"]

NoHeader == <<>>
\* No error: what a request that has not failed carries as its error.
NoError == <<>>
NoRequest == [pc |-> "idle", url |-> "none", hdr |-> NoHeader, sends |-> 0, err |-> NoError]
NewRequest(u) == [pc |-> "intercept", url |-> u, hdr |-> NoHeader, sends |-> 0, err |-> NoError]

\* Ways a request fails on the wire: a non-2xx status, or no answer within
\* the timeout.
Failures == {"404", "timeout"}
\* The message of the error axios rejects the request with.
ErrorMessage(f) ==
    IF f = "timeout" THEN <<"timeout of 2000ms exceeded">>
    ELSE <<"Request failed with status code ", f>>

VARIABLES
    now,            \* Date.now()
    ticks,          \* how often the clock advanced
    lastAuthCheck,  \* #lastAuthCheck
    auth,           \* #auth: the promise of the login response
    req,            \* the requests of the axios instance
    wire,           \* per target, the number of HTTP requests put on the wire
    issued,         \* the token the server answered the login with
    console,        \* what console.error printed
    pure            \* the synchronous call in progress: arguments, position, result

vars == <<now, ticks, lastAuthCheck, auth, req, wire, issued, console, pure>>

----
\* The header built from a field the login response does not have.
AuthorizationHeaderUndefined(token) == <<"Bearer", "undefined">>

\* `Bearer ${auth.data.token}`
AuthorizationHeader(token) == <<"Bearer", token>>

\* Only the login is let through.
IsExemptLoginOnly(url) == url = LoginUrl

\* The test written with != where == is meant: true of every target.
IsExemptAlways(url) == url # LoginUrl \/ url # CollectUrl

\* config.url == "/auth/login" || config.url == "/collect"
IsExempt(url) == url = LoginUrl \/ url = CollectUrl

\* The test is left out: every check verifies.
VerifyDueAlways(last, t) == TRUE

\* The period written without its factor 60: one minute.
VerifyDueMinute(last, t) == last + 60 * 1000 < t

\* The comparison written with <= .
VerifyDueAtLeast(last, t) == last + HOUR <= t

\* this.#lastAuthCheck + 60 * 60 * 1000 < Date.now()
VerifyDue(last, t) == last + HOUR < t

\* The timestamp is left as it was when the verification is issued.
StampKept(last, t) == last

\* The timestamp is moved on by one period instead of to the current time.
StampStale(last, t) == last + HOUR

\* this.#lastAuthCheck = Date.now()
StampOnVerify(last, t) == t

----
\* The constructor: #lastAuthCheck = Date.now(), the interceptor is installed
\* and POST /auth/login is issued; its promise is #auth.
Init ==
    /\ now = 0
    /\ ticks = 0
    /\ lastAuthCheck = now
    /\ auth = [state |-> "pending", token |-> "none", err |-> NoError]
    /\ req = [i \in Ids |-> IF i = LoginId THEN NewRequest(LoginUrl) ELSE NoRequest]
    /\ wire = [u \in Urls |-> 0]
    /\ issued = "none"
    /\ console = {}
    /\ pure = NoCall

\* The wall clock advances.
Tick(d) ==
    /\ ticks < MaxTicks
    /\ now' = now + d
    /\ ticks' = ticks + 1
    /\ UNCHANGED <<lastAuthCheck, auth, req, wire, issued, console, pure>>

\* A public method calls this.#axios.get/post(u): the request is created and
\* its interceptor is queued.
Call(r, u) ==
    /\ req[r].pc = "idle"
    /\ \A q \in Callers : q < r => req[q].pc # "idle"
    /\ req' = [req EXCEPT ![r] = NewRequest(u)]
    /\ UNCHANGED <<now, ticks, lastAuthCheck, auth, wire, issued, console, pure>>

\* The session is not memoized: a request that finds no session yet logs in.
InterceptRelogin(r) ==
    /\ req[r].pc = "intercept"
    /\ req' = IF IsExempt(req[r].url)
              THEN [req EXCEPT ![r].pc = "ready"]
              ELSE IF auth.state = "pending"
              THEN [req EXCEPT ![r].pc = "awaitAuth", ![LoginId] = NewRequest(LoginUrl)]
              ELSE [req EXCEPT ![r].pc = "awaitAuth"]
    /\ UNCHANGED <<now, ticks, lastAuthCheck, auth, wire, issued, console, pure>>

\* #verifyAuth starts: exempt targets get their config back at once, the
\* others suspend at `await this.#auth`.
Intercept(r) ==
    /\ req[r].pc = "intercept"
    /\ req' = [req EXCEPT ![r].pc = IF IsExempt(req[r].url) THEN "ready" ELSE "awaitAuth"]
    /\ UNCHANGED <<now, ticks, lastAuthCheck, auth, wire, issued, console, pure>>

\* A rejected login is not propagated: the request goes on without a session.
AuthResumeUnchecked(r) ==
    /\ req[r].pc = "awaitAuth"
    /\ auth.state # "pending"
    /\ IF auth.state = "rejected"
       THEN /\ req' = [req EXCEPT ![r].pc = "ready"]
            /\ UNCHANGED lastAuthCheck
       ELSE LET hdr == AuthorizationHeader(auth.token) IN
            IF req[r].url = VerifyUrl
            THEN /\ req' = [req EXCEPT ![r].pc = "ready", ![r].hdr = hdr]
                 /\ UNCHANGED lastAuthCheck
            ELSE IF VerifyDue(lastAuthCheck, now)
            THEN /\ lastAuthCheck' = StampOnVerify(lastAuthCheck, now)
                 /\ req' = [req EXCEPT ![r].pc = "awaitVerify", ![r].hdr = hdr,
                                       ![Child(r)] = NewRequest(VerifyUrl)]
            ELSE /\ req' = [req EXCEPT ![r].pc = "ready", ![r].hdr = hdr]
                 /\ UNCHANGED lastAuthCheck
    /\ UNCHANGED <<now, ticks, auth, wire, issued, console, pure>>

\* #verifyAuth resumes after `await this.#auth`: a rejected login rejects
\* the request; otherwise the header is set and, for a target other than
\* /auth/verify, the timestamp is tested and written without suspension and
\* GET /auth/verify is issued.  The two readings of Date.now() return the
\* same instant here: a clock that advances between them gives the state
\* reached by Tick followed by this step, VerifyDue being monotonic in t.
AuthResume(r) ==
    /\ req[r].pc = "awaitAuth"
    /\ auth.state # "pending"
    /\ IF auth.state = "rejected"
       THEN /\ req' = [req EXCEPT ![r].pc = "rejected", ![r].err = auth.err]
            /\ UNCHANGED lastAuthCheck
       ELSE LET hdr == AuthorizationHeader(auth.token) IN
            IF req[r].url = VerifyUrl
            THEN /\ req' = [req EXCEPT ![r].pc = "ready", ![r].hdr = hdr]
                 /\ UNCHANGED lastAuthCheck
            ELSE IF VerifyDue(lastAuthCheck, now)
            THEN /\ lastAuthCheck' = StampOnVerify(lastAuthCheck, now)
                 /\ req' = [req EXCEPT ![r].pc = "awaitVerify", ![r].hdr = hdr,
                                       ![Child(r)] = NewRequest(VerifyUrl)]
            ELSE /\ req' = [req EXCEPT ![r].pc = "ready", ![r].hdr = hdr]
                 /\ UNCHANGED lastAuthCheck
    /\ UNCHANGED <<now, ticks, auth, wire, issued, console, pure>>

\* The catch block wraps the cause in a new error, as _richError did.
RethrownWrapped(error) == <<"Could not verify authentication">> \o error

\* The catch block throws a new error that leaves the cause out.
RethrownBare(error) == <<"Could not verify authentication">>

\* catch (error) { ...; throw error; }
Rethrown(error) == error

\* The verification is issued but not awaited.
VerifyResumeNoAwait(r) ==
    /\ r \in Callers
    /\ req[r].pc = "awaitVerify"
    /\ IF req[Child(r)].pc # "rejected"
       THEN /\ req' = [req EXCEPT ![r].pc = "ready"]
            /\ UNCHANGED console
       ELSE /\ req' = [req EXCEPT ![r].pc = "rejected", ![r].err = Rethrown(req[Child(r)].err)]
            /\ console' = console \cup {[url |-> req[r].url, hdr |-> req[r].hdr]}
    /\ UNCHANGED <<now, ticks, lastAuthCheck, auth, wire, issued, pure>>

\* The catch block logs the failure and does not rethrow it.
VerifyResumeSwallow(r) ==
    /\ r \in Callers
    /\ req[r].pc = "awaitVerify"
    /\ req[Child(r)].pc \in {"resolved", "rejected"}
    /\ req' = [req EXCEPT ![r].pc = "ready"]
    /\ console' = IF req[Child(r)].pc = "resolved" THEN console
                  ELSE console \cup {[url |-> req[r].url, hdr |-> req[r].hdr]}
    /\ UNCHANGED <<now, ticks, lastAuthCheck, auth, wire, issued, pure>>

\* A failed verification puts the timestamp back to the construction time.
VerifyResumeRollback(r) ==
    /\ r \in Callers
    /\ req[r].pc = "awaitVerify"
    /\ req[Child(r)].pc \in {"resolved", "rejected"}
    /\ IF req[Child(r)].pc = "resolved"
       THEN /\ req' = [req EXCEPT ![r].pc = "ready"]
            /\ UNCHANGED <<console, lastAuthCheck>>
       ELSE /\ req' = [req EXCEPT ![r].pc = "rejected", ![r].err = Rethrown(req[Child(r)].err)]
            /\ console' = console \cup {[url |-> req[r].url, hdr |-> req[r].hdr]}
            /\ lastAuthCheck' = 0
    /\ UNCHANGED <<now, ticks, auth, wire, issued, pure>>

\* The interceptor resumes only after a verification that succeeded; after
\* one that failed it stays suspended.
VerifyResumeStuck(r) ==
    /\ r \in Callers
    /\ req[r].pc = "awaitVerify"
    /\ req[Child(r)].pc = "resolved"
    /\ req' = [req EXCEPT ![r].pc = "ready"]
    /\ UNCHANGED <<now, ticks, lastAuthCheck, auth, wire, issued, console, pure>>

\* #verifyAuth resumes after `await this.#axios.get("/auth/verify")`.
VerifyResume(r) ==
    /\ r \in Callers
    /\ req[r].pc = "awaitVerify"
    /\ req[Child(r)].pc \in {"resolved", "rejected"}
    /\ IF req[Child(r)].pc = "resolved"
       THEN /\ req' = [req EXCEPT ![r].pc = "ready"]
            /\ UNCHANGED console
       ELSE /\ req' = [req EXCEPT ![r].pc = "rejected", ![r].err = Rethrown(req[Child(r)].err)]
            /\ console' = console \cup {[url |-> req[r].url, hdr |-> req[r].hdr]}
    /\ UNCHANGED <<now, ticks, lastAuthCheck, auth, wire, issued, pure>>

\* getCurrentUser() is called: it suspends at `await this.#auth` and issues no
\* request.
GetCurrentUser(r) ==
    /\ r \in Callers
    /\ req[r].pc = "idle"
    /\ \A q \in Callers : q < r => req[q].pc # "idle"
    /\ req' = [req EXCEPT ![r].pc = "awaitUser"]
    /\ UNCHANGED <<now, ticks, lastAuthCheck, auth, wire, issued, console, pure>>

\* getCurrentUser() resumes: it returns the login response's user, or rejects
\* with the login's failure.
UserResume(r) ==
    /\ req[r].pc = "awaitUser"
    /\ auth.state # "pending"
    /\ req' = IF auth.state = "fulfilled"
              THEN [req EXCEPT ![r].pc = "resolved"]
              ELSE [req EXCEPT ![r].pc = "rejected", ![r].err = auth.err]
    /\ UNCHANGED <<now, ticks, lastAuthCheck, auth, wire, issued, console, pure>>

\* The interceptor returned the config: axios puts the request on the wire.
Dispatch(r) ==
    /\ req[r].pc = "ready"
    /\ req' = [req EXCEPT ![r].pc = "sent", ![r].sends = @ + 1]
    /\ wire' = [wire EXCEPT ![req[r].url] = @ + 1]
    /\ UNCHANGED <<now, ticks, lastAuthCheck, auth, issued, console, pure>>

\* The timestamp is taken when the login completes.
LoginRespondStamps(t) ==
    /\ req[LoginId].pc = "sent"
    /\ req' = [req EXCEPT ![LoginId].pc = "resolved"]
    /\ auth' = [state |-> "fulfilled", token |-> t, err |-> NoError]
    /\ issued' = t
    /\ lastAuthCheck' = now
    /\ UNCHANGED <<now, ticks, wire, console, pure>>

\* The server answers the login with 2xx and {token, user}.
LoginRespond(t) ==
    /\ req[LoginId].pc = "sent"
    /\ req' = [req EXCEPT ![LoginId].pc = "resolved"]
    /\ auth' = [state |-> "fulfilled", token |-> t, err |-> NoError]
    /\ issued' = t
    /\ UNCHANGED <<now, ticks, lastAuthCheck, wire, console, pure>>

\* The login fails: non-2xx answer, network failure or timeout.
LoginFail(f) ==
    /\ req[LoginId].pc = "sent"
    /\ req' = [req EXCEPT ![LoginId].pc = "rejected", ![LoginId].err = ErrorMessage(f)]
    /\ auth' = [state |-> "rejected", token |-> "none", err |-> ErrorMessage(f)]
    /\ UNCHANGED <<now, ticks, lastAuthCheck, wire, issued, console, pure>>

\* The server answers a request other than the login with 2xx.
Respond(r) ==
    /\ r # LoginId
    /\ req[r].pc = "sent"
    /\ req' = [req EXCEPT ![r].pc = "resolved"]
    /\ UNCHANGED <<now, ticks, lastAuthCheck, auth, wire, issued, console, pure>>

\* A failed request is put back in line to be sent again.
FailRetry(r, f) ==
    /\ r # LoginId
    /\ req[r].pc = "sent"
    /\ req' = [req EXCEPT ![r].pc = "ready", ![r].err = ErrorMessage(f)]
    /\ UNCHANGED <<now, ticks, lastAuthCheck, auth, wire, issued, console, pure>>

\* A request other than the login fails.
Fail(r, f) ==
    /\ r # LoginId
    /\ req[r].pc = "sent"
    /\ req' = [req EXCEPT ![r].pc = "rejected", ![r].err = ErrorMessage(f)]
    /\ UNCHANGED <<now, ticks, lastAuthCheck, auth, wire, issued, console, pure>>

Next ==
    \/ \E d \in ClockSteps : Tick(d)
    \/ \E r \in Callers, u \in CallerUrls : Call(r, u)
    \/ \E r \in Ids : Intercept(r)
    \/ \E r \in Ids : AuthResume(r)
    \/ \E r \in Callers : VerifyResume(r)
    \/ \E r \in Ids : Dispatch(r)
    \/ \E t \in Tokens : LoginRespond(t)
    \/ \E f \in Failures : LoginFail(f)
    \/ \E r \in Ids : Respond(r)
    \/ \E r \in Ids, f \in Failures : Fail(r, f)
    \/ \E r \in Callers : GetCurrentUser(r)
    \/ \E r \in Callers : UserResume(r)

Spec == Init /\ [][Next]_vars

\* The pipeline followed for its progress: one token, and a clock that moves
\* by more than the verification period or not at all.
LiveClockSteps == {61 * 60 * 1000}
LiveTokens == {"tokA"}

\* A continuation that can run does run: the steps of the interceptor and of
\* axios after an await are microtasks of the event loop.
Continuations ==
    \/ \E r \in Ids : Intercept(r) \/ AuthResume(r) \/ Dispatch(r)
    \/ \E r \in Callers : VerifyResume(r) \/ UserResume(r)

\* A request on the wire is answered, or abandoned at the timeout given to
\* axios.create.
Answers ==
    \/ \E t \in LiveTokens : LoginRespond(t)
    \/ \E f \in Failures : LoginFail(f)
    \/ \E r \in Ids : Respond(r)
    \/ \E r \in Ids, f \in Failures : Fail(r, f)

\* What the caller and the clock do.
Environment ==
    \/ \E d \in LiveClockSteps : Tick(d)
    \/ \E r \in Callers, u \in CallerUrls : Call(r, u)
    \/ \E r \in Callers : GetCurrentUser(r)

NextLive == Environment \/ Continuations \/ Answers

\* The pipeline with its scheduling: the caller and the clock are free.
SpecLive == Init /\ [][NextLive]_vars /\ WF_vars(Continuations) /\ WF_vars(Answers)

TypeOK ==
    /\ now \in Nat
    /\ ticks \in 0..MaxTicks
    /\ lastAuthCheck \in Nat
    /\ auth.state \in {"pending", "fulfilled", "rejected"}
    /\ \A i \in Ids : req[i].pc \in {"idle", "intercept", "awaitAuth", "awaitVerify", "awaitUser",
                                     "ready", "sent", "resolved", "rejected"}

----
\* Requests that carry the session: every target but the two exemptions.
Authenticated(r) == req[r].url \in {VerifyUrl, WebsitesUrl}
\* Number of verifications the interceptor has issued so far.
VerifiesIssued == Cardinality({c \in Children : req[c].pc # "idle"})
\* The interceptor of caller r gets past `await this.#auth` in this step.
Checks(r) == req[r].pc = "awaitAuth" /\ req'[r].pc # "awaitAuth" /\ auth.state = "fulfilled"
\* The interceptor of caller r issues GET /auth/verify in this step.
Triggers(r) == req[Child(r)].pc = "idle" /\ req'[Child(r)].pc # "idle"

\* C1: however many authenticated requests are issued before the login
\* response arrives, POST /auth/login goes on the wire once, as the request the
\* constructor created, and every authenticated request proceeds on the outcome
\* of that one login: with its token when it succeeded, rejected unsent when
\* it failed.
C1_SingleLogin ==
    /\ wire[LoginUrl] <= 1
    /\ wire[LoginUrl] = req[LoginId].sends
    /\ \A r \in Ids : Authenticated(r) /\ req[r].pc \notin {"intercept", "awaitAuth"} =>
          /\ wire[LoginUrl] = 1
          /\ auth.state # "pending"
          /\ auth.state = "fulfilled" => req[r].hdr = <<"Bearer", auth.token>>
          /\ auth.state = "rejected" => req[r].pc = "rejected" /\ req[r].sends = 0

C1_Witness ==
    /\ \A r \in Callers : req[r].url = WebsitesUrl /\ req[r].pc = "awaitAuth"
    /\ req[LoginId].pc = "sent"
    /\ wire[LoginUrl] = 1

\* C2: a request that triggered a verification is put on the wire only after
\* GET /auth/verify was sent and answered: never while the verification is in
\* flight and never before it.
C2_VerifyBeforeDispatch ==
    \A r \in Callers : req[Child(r)].pc # "idle" /\ (req[r].pc = "ready" \/ req[r].sends > 0) =>
        /\ req[Child(r)].pc = "resolved"
        /\ req[Child(r)].sends = 1
        /\ wire[VerifyUrl] >= 1

C2_Witness == req[1].pc = "sent" /\ req[Child(1)].pc = "resolved" /\ wire[WebsitesUrl] = 1

\* C3: when the verification a request triggered has failed, that request is
\* not on the wire and never was, and the only outcome left to it is rejection.
C3_FailedVerifyBlocks ==
    \A r \in Callers : req[Child(r)].pc = "rejected" =>
        /\ req[r].sends = 0
        /\ req[r].pc \in {"awaitVerify", "rejected"}
        /\ wire[WebsitesUrl] = Cardinality({q \in Callers : req[q].url = WebsitesUrl /\ req[q].sends > 0})

C3_Witness ==
    /\ req[Child(1)].pc = "rejected" /\ req[Child(1)].sends = 1
    /\ req[1].pc = "rejected" /\ req[1].sends = 0
    /\ wire[WebsitesUrl] = 0

\* C4: a verification is issued only in a step in which at least one hour has
\* passed since the last-verification timestamp; a request whose check runs
\* less than an hour after it issues none and leaves the timestamp alone.
C4_VerifyOnlyAfterHour ==
    [][\A r \in Callers :
          /\ Triggers(r) => now - lastAuthCheck >= HOUR
          /\ Checks(r) /\ now - lastAuthCheck < HOUR =>
                /\ ~Triggers(r)
                /\ req'[r].pc = "ready"
                /\ lastAuthCheck' = lastAuthCheck]_vars

C4_Witness ==
    /\ now - lastAuthCheck = 30 * 60 * 1000
    /\ req[1].url = WebsitesUrl /\ req[1].pc = "sent"
    /\ wire[VerifyUrl] = 0 /\ VerifiesIssued = 0

\* C5 as stated: a check that runs when at least one hour has passed, exactly
\* one hour included, triggers a verification.
C5_Original ==
    [][\A r \in Callers :
          Checks(r) /\ now - lastAuthCheck >= HOUR =>
              Triggers(r) /\ req'[r].pc = "awaitVerify"]_vars

\* C5, amended: a check that runs when more than one hour has passed triggers
\* exactly one GET /auth/verify, answered before the request is sent; a check
\* that runs at exactly one hour triggers none.
C5_VerifyAfterMoreThanHour ==
    /\ [][\A r \in Callers :
            /\ Checks(r) /\ now - lastAuthCheck > HOUR =>
                  /\ Triggers(r)
                  /\ req'[r].pc = "awaitVerify"
                  /\ req'[Child(r)] = NewRequest(VerifyUrl)
            /\ Checks(r) /\ now - lastAuthCheck = HOUR =>
                  ~Triggers(r) /\ req'[r].pc = "ready"]_vars
    /\ [](\A r \in Callers :
            /\ req[Child(r)].sends <= 1
            /\ req[r].sends > 0 /\ req[Child(r)].pc # "idle" => req[Child(r)].sends = 1)

C5_Witness ==
    /\ lastAuthCheck = HOUR + 1
    /\ req[1].pc = "resolved" /\ req[Child(1)].pc = "resolved"
    /\ wire[VerifyUrl] = 1

\* C6: each verification moves the timestamp to the time of its check, so the
\* verifications issued so far are more than an hour apart from one another
\* and from construction, however many requests were in flight at each check:
\* no two requests verify for the same elapsed hour.
C6_OneVerifyPerPeriod ==
    /\ VerifiesIssued * (HOUR + 1) <= lastAuthCheck
    /\ wire[VerifyUrl] <= VerifiesIssued
    /\ lastAuthCheck <= now

C6_Witness ==
    /\ req[1].pc = "awaitVerify" /\ req[Child(1)].pc = "sent"
    /\ req[2].url = WebsitesUrl /\ req[2].pc = "ready" /\ req[Child(2)].pc = "idle"
    /\ lastAuthCheck = now
    /\ wire[VerifyUrl] = 1

\* C7 as stated: the timestamp holds the time of the last successful
\* verification, so while every verification so far has failed it still is
\* the construction time.
C7_Original ==
    (/\ \E c \in Children : req[c].pc = "rejected"
     /\ \A c \in Children : req[c].pc # "resolved")
        => lastAuthCheck = 0

\* C7, amended: the timestamp is written when a verification is triggered,
\* before GET /auth/verify is issued, and holds the time of that check; the
\* answer to the verification, success or failure, does not change it.
C7_StampAtTrigger ==
    [][/\ lastAuthCheck' # lastAuthCheck => \E r \in Callers : Checks(r) /\ Triggers(r)
       /\ \A r \in Callers : Triggers(r) => lastAuthCheck' = now /\ now' = now
       /\ \A c \in Children : req[c].pc = "sent" /\ req'[c].pc # "sent" =>
              lastAuthCheck' = lastAuthCheck]_vars

C7_Witness ==
    /\ req[Child(1)].pc = "rejected"
    /\ lastAuthCheck = 61 * 60 * 1000
    /\ now = lastAuthCheck + 1

\* C8: a request to /auth/login or /collect carries no Authorization header,
\* never waits for the session or for a verification and triggers none.
C8_ExemptPassThrough ==
    \A r \in Ids : req[r].url \in {LoginUrl, CollectUrl} =>
        /\ req[r].hdr = NoHeader
        /\ req[r].pc \notin {"awaitAuth", "awaitVerify"}
        /\ r \in Callers => req[Child(r)].pc = "idle"

C8_Witness ==
    /\ req[1].url = CollectUrl /\ req[1].pc = "resolved"
    /\ auth.state = "pending" /\ req[LoginId].pc = "sent"

\* C9: every request put on the wire for a target other than /auth/login and
\* /collect, the verifications included, carries Bearer followed by the token
\* the server answered the login with, and that token never changes.
C9_BearerToken ==
    /\ [](\A r \in Ids : req[r].sends > 0 /\ req[r].url \notin {LoginUrl, CollectUrl} =>
              issued \in Tokens /\ req[r].hdr = <<"Bearer", issued>>)
    /\ [][issued # "none" => issued' = issued /\ auth' = auth]_vars

C9_Witness ==
    /\ req[Child(1)].pc = "sent" /\ req[Child(1)].hdr = <<"Bearer", "tokB">>
    /\ req[2].pc = "sent" /\ req[2].hdr = <<"Bearer", "tokB">>

\* C10: nothing is put on the wire for a target other than /auth/login and
\* /collect before the login was answered successfully; until then the
\* interceptor holds the request at `await this.#auth`.
C10_LoginFirst ==
    \A r \in Ids : req[r].url \notin {"none", LoginUrl, CollectUrl} =>
        /\ req[r].pc \in {"ready", "awaitVerify"} \/ req[r].sends > 0 =>
              req[LoginId].pc = "resolved" /\ auth.state = "fulfilled"
        /\ auth.state = "pending" => req[r].pc \in {"intercept", "awaitAuth"}

C10_Witness ==
    /\ req[1].url = WebsitesUrl /\ req[1].pc = "awaitAuth"
    /\ req[2].pc = "idle"
    /\ req[LoginId].pc = "sent" /\ now > HOUR

----
\* The call in slot r is a getCurrentUser(), which makes no request.
IsUserCall(r) == req[r].url = "none" /\ req[r].pc # "idle"

\* C11: once the login has failed, it was the only login put on the wire and
\* no second one is created; nothing was or is sent for an authenticated
\* target, no verification is issued, and every authenticated request and
\* every getCurrentUser of the client is waiting for its turn to reject or has
\* rejected.
C11_LoginFailurePoisons ==
    auth.state = "rejected" =>
        /\ wire[LoginUrl] = 1 /\ req[LoginId].pc = "rejected"
        /\ wire[WebsitesUrl] = 0 /\ wire[VerifyUrl] = 0
        /\ \A r \in Callers :
              /\ req[r].url = WebsitesUrl =>
                    /\ req[r].pc \in {"intercept", "awaitAuth", "rejected"}
                    /\ req[r].sends = 0
                    /\ req[Child(r)].pc = "idle"
              /\ IsUserCall(r) => req[r].pc \in {"awaitUser", "rejected"}

C11_Witness ==
    /\ auth.state = "rejected"
    /\ req[1].url = WebsitesUrl /\ req[1].pc = "rejected"
    /\ IsUserCall(2) /\ req[2].pc = "rejected"
    /\ wire[LoginUrl] = 1

----
\* The error message names the status 404.
Names404(e) == \E i \in 1..Len(e) : e[i] = "404"

\* C19: a call whose login, verification or own request was answered with a
\* failure is rejected, never resolved, with that failure's error unchanged:
\* after a 404 the message is "Request failed with status code 404".
C19_FailureRejectsWithStatus ==
    /\ \A r \in Ids : req[r].pc = "rejected" <=> req[r].err # NoError
    /\ \A r \in Ids : req[r].err # NoError =>
          req[r].err \in { <<"Request failed with status code ", "404">>,
                           <<"timeout of 2000ms exceeded">> }
    /\ auth.state = "rejected" =>
          /\ auth.err = req[LoginId].err
          /\ \A r \in Callers :
                (req[r].url = WebsitesUrl /\ req[r].pc \notin {"intercept", "awaitAuth"})
                    \/ (IsUserCall(r) /\ req[r].pc # "awaitUser")
                => req[r].pc = "rejected" /\ req[r].err = req[LoginId].err
    /\ \A r \in Callers :
          req[Child(r)].pc = "rejected" /\ req[r].pc # "awaitVerify" =>
              /\ req[r].pc = "rejected"
              /\ req[r].err = req[Child(r)].err
              /\ Names404(req[Child(r)].err) => Names404(req[r].err)

C19_Witness ==
    /\ req[LoginId].pc = "rejected" /\ Names404(req[LoginId].err)
    /\ req[1].url = WebsitesUrl /\ req[1].pc = "rejected"
    /\ req[1].err = <<"Request failed with status code ", "404">>
    /\ req[1].sends = 0 /\ wire[WebsitesUrl] = 0

\* C20: no request is put on the wire more than once, the wire carries nothing
\* but the first sending of each request, and a request that has settled,
\* resolved or rejected, is never touched again: a failure stays with the
\* caller as a rejection that carries its error.
C20_NoRetry ==
    /\ [](\A r \in Ids : req[r].sends <= 1)
    /\ [](\A u \in Urls : wire[u] = Cardinality({r \in Ids : req[r].url = u /\ req[r].sends = 1}))
    /\ [][\A r \in Ids : req[r].pc \in {"resolved", "rejected"} => req'[r] = req[r]]_vars
    /\ [][auth.state # "pending" => auth' = auth]_vars

C20_Witness ==
    /\ req[Child(1)].pc = "rejected" /\ req[1].pc = "rejected" /\ req[1].sends = 0
    /\ req[2].url = WebsitesUrl /\ req[2].pc = "rejected" /\ req[2].sends = 1
    /\ req[Child(2)].pc = "idle"
    /\ wire[WebsitesUrl] = 1 /\ wire[VerifyUrl] = 1 /\ wire[LoginUrl] = 1

----
\* The sequence of strings e holds a session token.
HoldsToken(e) == \E i \in 1..Len(e) : e[i] \in Tokens

\* C24: no token of the session is in what console.error printed, nor in the
\* message of an error a request or call was rejected with.
C24_NoCredentialLeak ==
    /\ \A e \in console : ~HoldsToken(e.hdr)
    /\ \A r \in Ids : ~HoldsToken(req[r].err)
    /\ ~HoldsToken(auth.err)

\* C25 as stated: the error of a request rejected for a failed verification
\* is a "could not verify authentication" error around the cause.
C25_Original ==
    \A r \in Callers :
        req[r].pc = "rejected" /\ req[Child(r)].pc = "rejected" =>
            /\ req[r].err[1] = "Could not verify authentication"
            /\ SubSeq(req[r].err, 2, Len(req[r].err)) = req[Child(r)].err

\* C25: every failure reaches the caller as the error of the request that
\* failed, as it is: the verification's own error for a failed verification,
\* the login's for a failed login, with no wrapper, operation name or
\* parameters added; the configuration of the request held back by a failed
\* verification is printed by console.error, once per such request, and is
\* not part of the error.
C25_ErrorsSurfaceUnwrapped ==
    /\ \A r \in Callers :
          req[r].pc = "rejected" /\ req[Child(r)].pc = "rejected" =>
              /\ req[r].err = req[Child(r)].err
              /\ req[r].err[1] # "Could not verify authentication"
              /\ req[r].sends = 0
              /\ [url |-> req[r].url, hdr |-> req[r].hdr] \in console
    /\ \A r \in Ids :
          req[r].pc = "rejected" =>
              \/ Len(req[r].err) = 1 /\ req[r].err[1] = "timeout of 2000ms exceeded"
              \/ Len(req[r].err) = 2 /\ req[r].err[1] = "Request failed with status code "
    /\ \A e \in console :
          \E r \in Callers : /\ req[Child(r)].pc = "rejected" /\ req[r].pc = "rejected"
                             /\ e = [url |-> req[r].url, hdr |-> req[r].hdr]

C25_Witness ==
    /\ req[1].url = WebsitesUrl /\ req[1].pc = "rejected" /\ req[1].sends = 0
    /\ req[Child(1)].pc = "rejected" /\ req[Child(1)].sends = 1
    /\ req[1].err = <<"Request failed with status code ", "404">>
    /\ console # {}

\* C26: every call that was made is eventually resolved or rejected, and so
\* is every verification the interceptor issued; a verification never waits
\* for a verification of its own, and there are no more verifications than
\* calls.
C26_EveryCallSettles ==
    /\ \A r \in Callers \cup Children :
          (req[r].pc # "idle") ~> (req[r].pc \in {"resolved", "rejected"})
    /\ [](\A c \in Children : req[c].pc # "awaitVerify")
    /\ [](wire[VerifyUrl] <= Cardinality(Callers))

C26_Witness ==
    /\ req[1].url = WebsitesUrl /\ req[1].pc = "resolved" /\ req[Child(1)].pc = "resolved"
    /\ req[2].url = WebsitesUrl /\ req[2].pc = "rejected" /\ req[Child(2)].pc = "rejected"
    /\ wire[VerifyUrl] = 2

\* The verification issued for caller a has not been answered yet.
VerifyingFor(a) ==
    req[a].pc = "awaitVerify" /\ req[Child(a)].pc \notin {"idle", "resolved", "rejected"}

\* C28: a request whose check runs while the verification of another one is
\* unanswered, the timestamp that one wrote being less than an hour old,
\* verifies nothing and gets its configuration back in that same step, with
\* the session's token; and a request that issued no verification of its own
\* is rejected only by the failure of the login or of its own sending, never
\* by the failure of another request's verification.
C28_ConcurrentNotHeld ==
    /\ [][\A a, b \in Callers :
            a # b /\ VerifyingFor(a) /\ Checks(b) /\ now - lastAuthCheck <= HOUR =>
                /\ ~Triggers(b)
                /\ req'[b].pc = "ready"
                /\ req'[b].hdr = <<"Bearer", auth.token>>
                /\ lastAuthCheck' = lastAuthCheck
                /\ req'[a] = req[a]]_vars
    /\ [](\A b \in Callers :
            req[b].url = WebsitesUrl /\ req[Child(b)].pc = "idle"
            /\ req[b].pc = "rejected" /\ auth.state = "fulfilled" =>
                req[b].sends = 1)
    /\ [](\A b \in Callers : req[b].pc = "ready" => ENABLED Dispatch(b))

\* The second request was answered while the first one's verification, which
\* then failed, was still on the wire.
C28_Witness ==
    /\ req[1].url = WebsitesUrl /\ req[1].pc = "rejected" /\ req[1].sends = 0
    /\ req[Child(1)].pc = "rejected" /\ req[Child(1)].sends = 1
    /\ req[2].url = WebsitesUrl /\ req[2].pc = "resolved" /\ req[2].sends = 1
    /\ req[Child(2)].pc = "idle"
    /\ now = lastAuthCheck
    /\ wire[VerifyUrl] = 1

\* Verifications have been issued and every one of them has failed.
AllVerifiesFailed ==
    /\ \E c \in Children : req[c].pc = "rejected"
    /\ \A c \in Children : req[c].pc \in {"idle", "rejected"}

\* C29: while the verifications so far have all failed, the timestamp is the
\* time of the last failed attempt, and a request whose check runs no more
\* than an hour after it issues no GET /auth/verify and gets its
\* configuration back with the token of the login; the count of
\* verifications on the wire stays what it was.
C29_NoReverifyAfterFailure ==
    /\ [][AllVerifiesFailed =>
            /\ lastAuthCheck' = lastAuthCheck
               \/ \E r \in Callers : Checks(r) /\ now - lastAuthCheck > HOUR
            /\ \A b \in Callers :
                  Checks(b) /\ now - lastAuthCheck <= HOUR =>
                      /\ ~Triggers(b)
                      /\ req'[b].pc = "ready"
                      /\ req'[b].hdr = <<"Bearer", issued>>
                      /\ wire' = wire]_vars
    /\ [](AllVerifiesFailed => lastAuthCheck > HOUR /\ auth.token = issued)

\* The first request lost its verification; the second one, half an hour
\* later, was sent without one.
C29_Witness ==
    /\ req[1].pc = "rejected" /\ req[Child(1)].pc = "rejected"
    /\ req[2].url = WebsitesUrl /\ req[2].pc = "sent" /\ req[2].hdr = <<"Bearer", issued>>
    /\ req[Child(2)].pc = "idle"
    /\ lastAuthCheck = 61 * 60 * 1000
    /\ now = lastAuthCheck + 30 * 60 * 1000
    /\ wire[VerifyUrl] = 1

\* C30: the timestamp is the construction time, 0, until a verification is
\* triggered, whenever the login completes; it changes only to the reading
\* of the clock at that step, never backwards, and is never ahead of the
\* clock; and nothing is verified by a check that runs up to one hour after
\* construction.
C30_StampFromConstruction ==
    /\ [](VerifiesIssued = 0 => lastAuthCheck = 0)
    /\ [](lastAuthCheck <= now)
    /\ [](now <= HOUR => wire[VerifyUrl] = 0 /\ VerifiesIssued = 0)
    /\ [][/\ lastAuthCheck' >= lastAuthCheck
          /\ now' >= now
          /\ lastAuthCheck' # lastAuthCheck => lastAuthCheck' = now'
          /\ \A r \in Callers : Checks(r) /\ now <= HOUR =>
                ~Triggers(r) /\ req'[r].pc = "ready"]_vars

\* The login was answered half an hour after construction; a request checked
\* at one hour sharp is on the wire unverified.
C30_Witness ==
    /\ now = HOUR /\ lastAuthCheck = 0
    /\ auth.state = "fulfilled"
    /\ req[1].url = WebsitesUrl /\ req[1].pc = "sent" /\ req[Child(1)].pc = "idle"
    /\ req[2].pc = "idle"
    /\ wire[VerifyUrl] = 0

----
(***************************************************************************)
(* The constructor, followed from before the object exists.  Strings are   *)
(* sequences of characters.                                                *)
(***************************************************************************)
HttpScheme == <<"h", "t", "t", "p", ":", "/", "/">>
HttpsScheme == <<"h", "t", "t", "p", "s", ":", "/", "/">>
ApiPath == <<"/", "a", "p", "i">>
HostA == <<"u", ".", "x">>
HostB == <<"v">>

\* Server arguments tried: empty, bare, with either scheme, with trailing
\* slashes, a scheme alone, a scheme that is not leading, two schemes.
Servers ==
    { <<>>, HostA, HttpScheme \o HostA, HttpsScheme \o HostA,
      HttpsScheme \o HostA \o <<"/">>, HostA \o <<"/">>,
      HttpScheme \o HostA \o <<"/", "/">>, HttpsScheme,
      HostA \o <<"/">> \o HttpsScheme \o HostB,
      HttpScheme \o HttpsScheme \o HostA }
\* Username and password arguments tried.
Usernames == { <<>>, <<"a", "d", "m">> }
Passwords == { <<>>, <<"p", "w">>, <<"0">> }

\* pat occurs in s at position i.
IsAt(s, i, pat) ==
    /\ i + Len(pat) - 1 <= Len(s)
    /\ SubSeq(s, i, i + Len(pat) - 1) = pat

\* Length of the match of /https?:\/\// in s at position i, 0 when none.
SchemeLenAt(s, i) ==
    IF IsAt(s, i, HttpsScheme) THEN Len(HttpsScheme)
    ELSE IF IsAt(s, i, HttpScheme) THEN Len(HttpScheme)
    ELSE 0

\* s.replace(/https?:\/\//, ""): the leftmost match is removed, wherever it is.
ReplaceScheme(s) ==
    LET hits == {i \in 1..Len(s) : SchemeLenAt(s, i) > 0} IN
    IF hits = {} THEN s
    ELSE LET i == CHOOSE j \in hits : \A k \in hits : j <= k IN
         SubSeq(s, 1, i - 1) \o SubSeq(s, i + SchemeLenAt(s, i), Len(s))

\* s.replace(/\/$/, ""): one trailing slash is removed.
StripTrailingSlash(s) ==
    IF Len(s) > 0 /\ s[Len(s)] = "/" THEN SubSeq(s, 1, Len(s) - 1) ELSE s

\* server.replace(/https?:\/\//, "").replace(/\/$/, "")
NormalizeServer(s) == StripTrailingSlash(ReplaceScheme(s))

\* `http://${server}/api`
BaseURL(server) == HttpScheme \o server \o ApiPath

\* The credentials test written with && : both must be empty to throw.
CredentialsMissingBoth(username, password) == username = <<>> /\ password = <<>>

\* !username || !password
CredentialsMissing(username, password) == username = <<>> \/ password = <<>>

\* Before `new UmamiApiClient(server, username, password)`: no request exists.
InitCtor ==
    /\ now = 0
    /\ ticks = 0
    /\ lastAuthCheck = 0
    /\ auth = [state |-> "pending", token |-> "none", err |-> NoError]
    /\ req = [i \in Ids |-> NoRequest]
    /\ wire = [u \in Urls |-> 0]
    /\ issued = "none"
    /\ console = {}
    /\ \E sv \in Servers, un \in Usernames, pw \in Passwords :
          pure = [fn |-> "constructor", pc |-> "start",
                  server |-> sv, username |-> un, password |-> pw,
                  baseURL |-> <<>>, interceptors |-> 0, login |-> <<>>]

\* The constructor runs: it throws on an empty server or on an empty username
\* or password; otherwise it creates the axios instance on the base URL,
\* installs the interceptor and posts the login, which is the state Init.
Construct ==
    /\ pure.fn = "constructor" /\ pure.pc = "start"
    /\ IF pure.server = <<>>
       THEN /\ pure' = [pure EXCEPT !.pc = "thrown"]
            /\ UNCHANGED <<lastAuthCheck, req>>
       ELSE IF CredentialsMissing(pure.username, pure.password)
       THEN /\ pure' = [pure EXCEPT !.pc = "thrown"]
            /\ UNCHANGED <<lastAuthCheck, req>>
       ELSE LET base == BaseURL(NormalizeServer(pure.server)) IN
            /\ pure' = [pure EXCEPT !.pc = "done", !.baseURL = base,
                                    !.interceptors = 1,
                                    !.login = base \o <<LoginUrl>>]
            /\ lastAuthCheck' = now
            /\ req' = [req EXCEPT ![LoginId] = NewRequest(LoginUrl)]
    /\ UNCHANGED <<now, ticks, auth, wire, issued, console>>

NextCtor == Construct

SpecCtor == InitCtor /\ [][NextCtor]_vars

\* C12: a construction with an empty server, an empty username or an empty
\* password ends by throwing, with no request created or put on the wire, no
\* login started and no interceptor installed.
C12_InvalidArgsThrowFirst ==
    (/\ pure.pc # "start"
     /\ pure.server = <<>> \/ pure.username = <<>> \/ pure.password = <<>>)
        => /\ pure.pc = "thrown"
           /\ \A i \in Ids : req[i] = NoRequest
           /\ \A u \in Urls : wire[u] = 0
           /\ pure.interceptors = 0 /\ pure.login = <<>>

C12_Witness ==
    /\ pure.pc = "thrown"
    /\ pure.server = HostA /\ pure.username # <<>> /\ pure.password = <<>>
    /\ req[LoginId] = NoRequest

\* The scheme at the start of s, if any, and one trailing slash removed.
LeadingSchemeStripped(s) ==
    StripTrailingSlash(IF SchemeLenAt(s, 1) > 0
                       THEN SubSeq(s, 1 + SchemeLenAt(s, 1), Len(s)) ELSE s)

\* C13: after every construction that is accepted, the base URL is https://
\* followed by the server argument without its leading scheme and trailing
\* slash, followed by /api, and the login goes to that URL plus /auth/login.
C13_HttpsBaseUrl ==
    pure.fn = "constructor" /\ pure.pc = "done" =>
        /\ pure.baseURL = HttpsScheme \o LeadingSchemeStripped(pure.server) \o ApiPath
        /\ pure.login = pure.baseURL \o <<LoginUrl>>

----
(***************************************************************************)
(* convertPeriodToTime and the analytics call getStats that uses it        *)
(* (classes/website.ts).  A time in milliseconds is written as whole       *)
(* seconds plus milliseconds, [sec, ms] with ms in 0..999: the month's     *)
(* 31 * 24 * 60 * 60 * 1000 is beyond the integers TLC computes with.      *)
(***************************************************************************)
HOUR_PERIODS == <<"1h", "1hour", "60min", "60minutes">>
DAY_PERIODS == <<"1d", "1day", "24h", "24hours">>
WEEK_PERIODS == <<"7d", "7days", "1w", "1week">>
MONTH_PERIODS == <<"31d", "31days", "1m", "1month">>

\* An argument that is left out.
Undefined == "undefined"
\* Period arguments tried: the accepted tokens, none, and two that are not
\* accepted.
PeriodArgs ==
    {HOUR_PERIODS[i] : i \in 1..4} \cup {DAY_PERIODS[i] : i \in 1..4}
        \cup {WEEK_PERIODS[i] : i \in 1..4} \cup {MONTH_PERIODS[i] : i \in 1..4}
        \cup {Undefined, "bogus", "2h"}
\* Readings of Date.now() at the start of a call.
StartClocks == {[sec |-> 1700000000, ms |-> m] : m \in {0, 500, 999}}
\* Milliseconds by which the clock may advance between two readings.
ClockDrift == {0, 1}

\* n * 1000 milliseconds.
Seconds(n) == [sec |-> n, ms |-> 0]
\* a - b
TimeMinus(a, b) ==
    IF a.ms >= b.ms THEN [sec |-> a.sec - b.sec, ms |-> a.ms - b.ms]
    ELSE [sec |-> a.sec - b.sec - 1, ms |-> a.ms + 1000 - b.ms]
\* a + d milliseconds
TimePlusMs(a, d) == [sec |-> a.sec + (a.ms + d) \div 1000, ms |-> (a.ms + d) % 1000]

\* list.includes(x)
Includes(list, x) == \E i \in 1..Len(list) : list[i] = x

\* The default parameter written as the hour.
DefaultPeriodArgHour == "1h"

\* (period: TimePeriod = "24h")
DefaultPeriodArg == "24h"

\* The message built without the month's tokens.
AcceptedPeriodsNoMonth == HOUR_PERIODS \o DAY_PERIODS \o WEEK_PERIODS

\* [...HOUR_PERIODS, ...DAY_PERIODS, ...WEEK_PERIODS, ...MONTH_PERIODS]
AcceptedPeriods == HOUR_PERIODS \o DAY_PERIODS \o WEEK_PERIODS \o MONTH_PERIODS

UnexpectedPeriod == "Unexpected period provided. Accepted values are : "

\* UMAMI_CLIENT_TIME_PERIOD ?? "24h", the variable not being set.
DEFAULT_TIME_PERIOD == "24h"

\* convertPeriodToTime(arg) when the first Date.now() returns t1 and the
\* second t2: what it throws, or the interval it returns.
ConvertPeriodToTime(arg, t1, t2) ==
    LET period == IF arg = Undefined THEN DefaultPeriodArg ELSE arg IN
    IF Includes(HOUR_PERIODS, period)
    THEN [thrown |-> <<>>, startAt |-> TimeMinus(t1, Seconds(60 * 60)), endAt |-> t2]
    ELSE IF Includes(DAY_PERIODS, period)
    THEN [thrown |-> <<>>, startAt |-> TimeMinus(t1, Seconds(24 * 60 * 60)), endAt |-> t2]
    ELSE IF Includes(WEEK_PERIODS, period)
    THEN [thrown |-> <<>>, startAt |-> TimeMinus(t1, Seconds(7 * 24 * 60 * 60)), endAt |-> t2]
    ELSE IF Includes(MONTH_PERIODS, period)
    THEN [thrown |-> <<>>, startAt |-> TimeMinus(t1, Seconds(31 * 24 * 60 * 60)), endAt |-> t2]
    ELSE [thrown |-> <<UnexpectedPeriod>> \o AcceptedPeriods]

StatsUrl == "/websites/{id}/stats"

\* A call of convertPeriodToTime(period) or of website.getStats({period}) is
\* about to run on a constructed client that has made no request yet.
InitPeriod ==
    /\ now = 0
    /\ ticks = 0
    /\ lastAuthCheck = 0
    /\ auth = [state |-> "pending", token |-> "none", err |-> NoError]
    /\ req = [i \in Ids |-> NoRequest]
    /\ wire = [u \in Urls |-> 0]
    /\ issued = "none"
    /\ console = {}
    /\ \E f \in {"convertPeriodToTime", "getStats"}, p \in PeriodArgs, c \in StartClocks :
          pure = [fn |-> f, pc |-> "start", period |-> p, clock |-> c,
                  t1 |-> c, t2 |-> c, result |-> [thrown |-> <<>>]]

\* convertPeriodToTime(period) runs; the clock may advance between its two
\* readings of Date.now().
Convert ==
    /\ pure.fn = "convertPeriodToTime" /\ pure.pc = "start"
    /\ \E d \in ClockDrift :
          LET t1 == pure.clock
              t2 == TimePlusMs(pure.clock, d)
              res == ConvertPeriodToTime(pure.period, t1, t2) IN
          pure' = IF res.thrown # <<>>
                  THEN [pure EXCEPT !.pc = "thrown", !.result = res]
                  ELSE [pure EXCEPT !.pc = "done", !.result = res,
                                    !.t1 = t1, !.t2 = t2, !.clock = t2]
    /\ UNCHANGED <<now, ticks, lastAuthCheck, auth, req, wire, issued, console>>

\* website.getStats({period}) runs up to its await: the arguments of
\* this.#axios.get are evaluated, convertPeriodToTime first, and only then is
\* the request created.
GetStats ==
    /\ pure.fn = "getStats" /\ pure.pc = "start"
    /\ \E d \in ClockDrift :
          LET t1 == pure.clock
              t2 == TimePlusMs(pure.clock, d)
              arg == IF pure.period = Undefined THEN DEFAULT_TIME_PERIOD ELSE pure.period
              res == ConvertPeriodToTime(arg, t1, t2) IN
          IF res.thrown # <<>>
          THEN /\ pure' = [pure EXCEPT !.pc = "rejected", !.result = res]
               /\ UNCHANGED req
          ELSE /\ pure' = [pure EXCEPT !.pc = "requested", !.result = res,
                                       !.t1 = t1, !.t2 = t2, !.clock = t2]
               /\ req' = [req EXCEPT ![1] = NewRequest(StatsUrl)]
    /\ UNCHANGED <<now, ticks, lastAuthCheck, auth, wire, issued, console>>

NextPeriod == Convert \/ GetStats

SpecPeriod == InitPeriod /\ [][NextPeriod]_vars

\* endAt - startAt of the interval a call returned.
Width == TimeMinus(pure.result.endAt, pure.result.startAt)

\* C14: for every accepted token the returned interval is exactly one hour,
\* one day, seven days or thirty-one days wide, whatever the clock did during
\* the call: endAt is one reading of the clock and startAt that reading less
\* the duration.
C14_ExactWidth ==
    pure.fn = "convertPeriodToTime" /\ pure.pc = "done" /\ pure.period # Undefined =>
        /\ pure.period \in {"1h", "1hour", "60min", "60minutes"} => Width = Seconds(3600)
        /\ pure.period \in {"1d", "1day", "24h", "24hours"} => Width = Seconds(86400)
        /\ pure.period \in {"7d", "7days", "1w", "1week"} => Width = Seconds(604800)
        /\ pure.period \in {"31d", "31days", "1m", "1month"} => Width = Seconds(2678400)

\* C15: a period that is in none of the four lists makes convertPeriodToTime
\* throw, with no interval returned, the message followed by the sixteen
\* accepted tokens; getStats with such a period rejects with the same and
\* creates no request.
C15_UnknownPeriodThrows ==
    (/\ pure.fn \in {"convertPeriodToTime", "getStats"} /\ pure.pc # "start"
     /\ pure.period \in {"bogus", "2h"})
        => /\ pure.pc = IF pure.fn = "getStats" THEN "rejected" ELSE "thrown"
           /\ pure.result =
                 [thrown |-> <<"Unexpected period provided. Accepted values are : ",
                               "1h", "1hour", "60min", "60minutes",
                               "1d", "1day", "24h", "24hours",
                               "7d", "7days", "1w", "1week",
                               "31d", "31days", "1m", "1month">>]
           /\ \A i \in Ids : req[i] = NoRequest
           /\ \A u \in Urls : wire[u] = 0

C15_Witness ==
    /\ pure.fn = "getStats" /\ pure.pc = "rejected" /\ pure.period = "bogus"
    /\ Len(pure.result.thrown) = 17
    /\ req[1] = NoRequest

\* C16: a call without argument returns what a call with "24h" returns for
\* the same readings of the clock: the first reading less 24 hours, and the
\* second reading; exactly 24 hours ending now when the two readings agree.
C16_DefaultIs24h ==
    pure.fn = "convertPeriodToTime" /\ pure.pc # "start" /\ pure.period = Undefined =>
        /\ pure.pc = "done"
        /\ pure.result = ConvertPeriodToTime("24h", pure.t1, pure.t2)
        /\ pure.result.startAt = TimeMinus(pure.t1, Seconds(86400))
        /\ pure.result.endAt = pure.t2
        /\ pure.t1 = pure.t2 => Width = Seconds(86400) /\ pure.result.endAt = pure.clock

C16_Witness ==
    /\ pure.fn = "convertPeriodToTime" /\ pure.pc = "done" /\ pure.period = Undefined
    /\ pure.t1 = [sec |-> 1700000000, ms |-> 500] /\ pure.t2 = pure.t1
    /\ pure.result.startAt = [sec |-> 1699913600, ms |-> 500]

----
(***************************************************************************)
(* getWebsites and getWebsite on an authenticated client: what the caller  *)
(* gets for what the server holds.  Sequences count from 1 where the       *)
(* arrays of the code count from 0.                                        *)
(***************************************************************************)

\* Longest website list the server answers with.
MaxSites == 3

\* The fields of WebsiteData, which are the public fields of Website.
WebsiteFields ==
    {"id", "name", "domain", "shareId", "resetAt", "userId",
     "createdAt", "updatedAt", "deletedAt"}

Null == "null"

\* Websites the server may hold, each with its own id.
SiteRecords ==
    { [id |-> "3", name |-> "a__www.example.fr", domain |-> "www.example.fr",
       shareId |-> Null, resetAt |-> Null, userId |-> "1",
       createdAt |-> "2022-02-17T12:57:43.805Z",
       updatedAt |-> "2022-02-17T12:57:43.805Z", deletedAt |-> Null],
      [id |-> "2", name |-> "b__integration", domain |-> "integration.example.fr",
       shareId |-> "sh2", resetAt |-> "2022-03-01T00:00:00.000Z", userId |-> "1",
       createdAt |-> "2022-02-16T20:33:31.106Z",
       updatedAt |-> "2022-03-01T00:00:00.000Z", deletedAt |-> Null],
      [id |-> "1", name |-> "dev", domain |-> "localhost",
       shareId |-> Null, resetAt |-> Null, userId |-> "2",
       createdAt |-> "2022-02-16T12:44:44.015Z",
       updatedAt |-> "2022-02-16T12:44:44.015Z",
       deletedAt |-> "2022-04-01T00:00:00.000Z"],
      [id |-> "4", name |-> "dev", domain |-> "localhost",
       shareId |-> "sh4", resetAt |-> Null, userId |-> "1",
       createdAt |-> "2022-02-16T12:44:44.015Z",
       updatedAt |-> "2022-02-16T12:44:44.015Z", deletedAt |-> Null] }

\* The lists GET /websites may answer with: up to MaxSites websites in any
\* order, no website twice.
SiteLists ==
    { l \in UNION { [1..n -> SiteRecords] : n \in 0..MaxSites } :
        \A i, j \in 1..Len(l) : i # j => l[i].id # l[j].id }

\* Ids a caller may ask for; "9" is the id of no website.
SiteIds == {"3", "1", "9"}

\* The constructor copies the name into the domain as well.
WebsiteNameAsDomain(data) ==
    [f \in WebsiteFields |-> IF f = "domain" THEN data.name ELSE data[f]]

\* new Website(axios, data): each field of WebsiteData is copied.
Website(data) == [f \in WebsiteFields |-> data[f]]

\* The last element is taken for the first.
FirstWebsiteLast(websites) == websites[Len(websites)]

\* websites[0]
FirstWebsite(websites) == websites[1]

\* data.map((data) => new Website(this.#axios, data))
MapWebsites(data) == [i \in 1..Len(data) |-> Website(data[i])]

WebsiteUrl(id) == <<"/websites/", id>>

\* What new Website(axios, undefined) throws when it reads data.id.
UndefinedData == <<"TypeError: Cannot read properties of undefined (reading 'id')">>

\* `/share/${value}`
ShareUrl(value) == <<"/share/", value>>

\* Keys getWebsiteBy is called with: the two it treats apart, and fields.
SiteKeys == {"shareId", "id", "name", "domain", "userId"}
\* Values getWebsiteBy is called with, a string or a number, the number
\* written in decimal.
SiteValues ==
    {[t |-> "string", v |-> v] : v \in {"dev", "localhost", "1", "3", "sh2", "nope"}}
    \cup {[t |-> "number", v |-> "1"]}

\* website[key] == value: a string equals a string that is the same, and a
\* number whose decimal writing it is; null equals neither.
LooseEquals(field, value) == field # Null /\ field = value.v

\* The matches of the list, the last of them first.
FindLast(websites, key, value) ==
    LET at == {i \in 1..Len(websites) : LooseEquals(websites[i][key], value)}
    IN  IF at = {} THEN <<>> ELSE <<websites[CHOOSE i \in at : \A j \in at : j <= i]>>

\* websites.find((website) => website[key] == value): the first match, or
\* nothing.
Find(websites, key, value) ==
    LET at == {i \in 1..Len(websites) : LooseEquals(websites[i][key], value)}
    IN  IF at = {} THEN <<>> ELSE <<websites[CHOOSE i \in at : \A j \in at : i <= j]>>

CouldNotFindWebsite == <<"Could not find website">>

\* getWebsites(), getWebsite(), getWebsite(id) or getWebsiteBy(key, value)
\* is about to run on a client whose login has been answered.
InitSites ==
    /\ now = 0
    /\ ticks = 0
    /\ lastAuthCheck = 0
    /\ auth = [state |-> "fulfilled", token |-> "tokA", err |-> NoError]
    /\ req = [i \in Ids |-> NoRequest]
    /\ wire = [u \in Urls |-> 0]
    /\ issued = "none"
    /\ console = {}
    /\ \E l \in SiteLists :
          \/ \E f \in {"getWebsites", "getWebsite"} :
                pure = [fn |-> f, pc |-> "start", id |-> "undefined", server |-> l,
                        gets |-> <<>>, result |-> <<>>, thrown |-> NoError]
          \/ \E id \in SiteIds :
                pure = [fn |-> "getWebsite", pc |-> "start", id |-> id, server |-> l,
                        gets |-> <<>>, result |-> <<>>, thrown |-> NoError]
          \/ \E k \in SiteKeys, v \in SiteValues :
                pure = [fn |-> "getWebsiteBy", pc |-> "start", id |-> "undefined",
                        key |-> k, value |-> v, server |-> l,
                        gets |-> <<>>, result |-> <<>>, thrown |-> NoError]

\* getWebsites(), called by the user or by getWebsite(), asks for the list.
GetWebsites ==
    /\ pure.pc = "start"
    /\ pure.fn = "getWebsites" \/ (pure.fn = "getWebsite" /\ pure.id = "undefined")
    /\ pure' = [pure EXCEPT !.pc = "awaitWebsites", !.gets = Append(@, <<WebsitesUrl>>)]
    /\ UNCHANGED <<now, ticks, lastAuthCheck, auth, req, wire, issued, console>>

\* The list arrives: getWebsites wraps each element; getWebsite() wraps the
\* first of the wrapped elements once more.
WebsitesArrive ==
    /\ pure.pc = "awaitWebsites"
    /\ LET websites == MapWebsites(pure.server) IN
       pure' = IF pure.fn = "getWebsites"
               THEN [pure EXCEPT !.pc = "resolved", !.result = websites]
               ELSE IF Len(websites) = 0
               THEN [pure EXCEPT !.pc = "rejected", !.thrown = UndefinedData]
               ELSE [pure EXCEPT !.pc = "resolved",
                                 !.result = <<Website(FirstWebsite(websites))>>]
    /\ UNCHANGED <<now, ticks, lastAuthCheck, auth, req, wire, issued, console>>

\* getWebsite(id) asks for the one website.
GetWebsiteById ==
    /\ pure.pc = "start"
    /\ pure.fn = "getWebsite" /\ pure.id # "undefined"
    /\ pure' = [pure EXCEPT !.pc = "awaitWebsite", !.gets = Append(@, WebsiteUrl(pure.id))]
    /\ UNCHANGED <<now, ticks, lastAuthCheck, auth, req, wire, issued, console>>

\* The server answers with the website of that id, or with 404.
WebsiteArrives ==
    /\ pure.pc = "awaitWebsite"
    /\ LET found == { i \in 1..Len(pure.server) : pure.server[i].id = pure.id } IN
       pure' = IF found = {}
               THEN [pure EXCEPT !.pc = "rejected", !.thrown = ErrorMessage("404")]
               ELSE [pure EXCEPT !.pc = "resolved",
                        !.result = <<Website(pure.server[CHOOSE i \in found : TRUE])>>]
    /\ UNCHANGED <<now, ticks, lastAuthCheck, auth, req, wire, issued, console>>

\* getWebsiteBy(key, value) up to its first await: the share for shareId,
\* getWebsite(value) for id, getWebsites() for any other key.
GetWebsiteBy ==
    /\ pure.fn = "getWebsiteBy" /\ pure.pc = "start"
    /\ pure' = IF pure.key = "shareId"
               THEN [pure EXCEPT !.pc = "awaitShare", !.gets = Append(@, ShareUrl(pure.value.v))]
               ELSE IF pure.key = "id"
               THEN [pure EXCEPT !.pc = "awaitWebsite", !.id = pure.value.v,
                                 !.gets = Append(@, WebsiteUrl(pure.value.v))]
               ELSE [pure EXCEPT !.pc = "awaitFind", !.gets = Append(@, <<WebsitesUrl>>)]
    /\ UNCHANGED <<now, ticks, lastAuthCheck, auth, req, wire, issued, console>>

\* GET /share/{value} is answered with {id, token} of the website shared
\* under that id, and getWebsite(data.id) asks for it; or with 404.
ShareArrives ==
    /\ pure.pc = "awaitShare"
    /\ LET found == { i \in 1..Len(pure.server) : pure.server[i].shareId # Null
                                                 /\ pure.server[i].shareId = pure.value.v } IN
       pure' = IF found = {}
               THEN [pure EXCEPT !.pc = "rejected", !.thrown = ErrorMessage("404")]
               ELSE LET id == pure.server[CHOOSE i \in found : TRUE].id IN
                    [pure EXCEPT !.pc = "awaitWebsite", !.id = id,
                                 !.gets = Append(@, WebsiteUrl(id))]
    /\ UNCHANGED <<now, ticks, lastAuthCheck, auth, req, wire, issued, console>>

\* The list arrives in getWebsiteBy: the first match is returned, and
\* without a match the call throws.
FindArrives ==
    /\ pure.pc = "awaitFind"
    /\ LET website == Find(MapWebsites(pure.server), pure.key, pure.value) IN
       pure' = IF website = <<>>
               THEN [pure EXCEPT !.pc = "rejected", !.thrown = CouldNotFindWebsite]
               ELSE [pure EXCEPT !.pc = "resolved", !.result = website]
    /\ UNCHANGED <<now, ticks, lastAuthCheck, auth, req, wire, issued, console>>

NextSites ==
    \/ GetWebsites
    \/ WebsitesArrive
    \/ GetWebsiteById
    \/ WebsiteArrives
    \/ GetWebsiteBy
    \/ ShareArrives
    \/ FindArrives

SpecSites == InitSites /\ [][NextSites]_vars

----
(***************************************************************************)
(* The user of the session: what getCurrentUser() returns before and after *)
(* a verification, followed on one client whose authenticated requests are *)
(* intercepted one after the other.                                        *)
(***************************************************************************)

\* AuthData.user as the server may report it: the same account with its
\* role or its name changed.
Users ==
    { [id |-> "u1", username |-> "admin", role |-> "admin"],
      [id |-> "u1", username |-> "admin", role |-> "user"],
      [id |-> "u1", username |-> "root", role |-> "admin"] }

NoUser == [id |-> "none"]

\* (await this.#auth).data.user
CurrentUser(a, verified) == a.user

\* The constructor has run: the login is on the wire.
InitUser ==
    /\ now = 0
    /\ ticks = 0
    /\ lastAuthCheck = now
    /\ auth = [state |-> "pending", token |-> "none", err |-> NoError, user |-> NoUser]
    /\ req = [i \in Ids |-> NoRequest]
    /\ wire = [u \in Urls |-> 0]
    /\ issued = "none"
    /\ console = {}
    /\ pure = [fn |-> "session", pc |-> "login", hdr |-> NoHeader,
               verified |-> NoUser, current |-> NoUser, thrown |-> NoError]

\* The server answers the login with {token, user}.
SessionLogin(t, u) ==
    /\ pure.fn = "session" /\ pure.pc = "login"
    /\ auth' = [state |-> "fulfilled", token |-> t, err |-> NoError, user |-> u]
    /\ issued' = t
    /\ pure' = [pure EXCEPT !.pc = "idle"]
    /\ UNCHANGED <<now, ticks, lastAuthCheck, req, wire, console>>

\* The login fails.
SessionLoginFail(f) ==
    /\ pure.fn = "session" /\ pure.pc = "login"
    /\ auth' = [auth EXCEPT !.state = "rejected", !.err = ErrorMessage(f)]
    /\ pure' = [pure EXCEPT !.pc = "idle"]
    /\ UNCHANGED <<now, ticks, lastAuthCheck, req, wire, issued, console>>

\* The wall clock advances while no interceptor is running.
SessionTick(d) ==
    /\ pure.fn = "session" /\ pure.pc = "idle"
    /\ ticks < MaxTicks
    /\ now' = now + d
    /\ ticks' = ticks + 1
    /\ UNCHANGED <<lastAuthCheck, auth, req, wire, issued, console, pure>>

\* #verifyAuth runs for an authenticated request on the logged-in client,
\* up to its return or to `await this.#axios.get("/auth/verify")`.
SessionRequest ==
    /\ pure.fn = "session" /\ pure.pc = "idle"
    /\ auth.state = "fulfilled"
    /\ IF VerifyDue(lastAuthCheck, now)
       THEN /\ lastAuthCheck' = StampOnVerify(lastAuthCheck, now)
            /\ wire' = [wire EXCEPT ![VerifyUrl] = @ + 1]
            /\ pure' = [pure EXCEPT !.pc = "awaitVerify",
                                    !.hdr = AuthorizationHeader(auth.token)]
       ELSE /\ pure' = [pure EXCEPT !.hdr = AuthorizationHeader(auth.token)]
            /\ UNCHANGED <<lastAuthCheck, wire>>
    /\ UNCHANGED <<now, ticks, auth, req, issued, console>>

\* GET /auth/verify is answered with the user as the server has it now.
\* The interceptor drops the response: #auth is what the login made it.
SessionVerified(u) ==
    /\ pure.fn = "session" /\ pure.pc = "awaitVerify"
    /\ pure' = [pure EXCEPT !.pc = "idle", !.verified = u, !.current = NoUser]
    /\ UNCHANGED <<now, ticks, lastAuthCheck, auth, req, wire, issued, console>>

\* GET /auth/verify fails: the interceptor logs and rethrows.
SessionVerifyFail(f) ==
    /\ pure.fn = "session" /\ pure.pc = "awaitVerify"
    /\ pure' = [pure EXCEPT !.pc = "idle", !.thrown = Rethrown(ErrorMessage(f))]
    /\ console' = console \cup {[url |-> WebsitesUrl, hdr |-> pure.hdr]}
    /\ UNCHANGED <<now, ticks, lastAuthCheck, auth, req, wire, issued>>

\* getCurrentUser() on a client whose login has been answered.
SessionCurrentUser ==
    /\ pure.fn = "session" /\ pure.pc = "idle"
    /\ auth.state # "pending"
    /\ pure' = IF auth.state = "fulfilled"
               THEN [pure EXCEPT !.current = CurrentUser(auth, pure.verified)]
               ELSE [pure EXCEPT !.thrown = auth.err]
    /\ UNCHANGED <<now, ticks, lastAuthCheck, auth, req, wire, issued, console>>

NextUser ==
    \/ \E t \in Tokens, u \in Users : SessionLogin(t, u)
    \/ \E f \in Failures : SessionLoginFail(f)
    \/ \E d \in ClockSteps : SessionTick(d)
    \/ SessionRequest
    \/ \E u \in Users : SessionVerified(u)
    \/ \E f \in Failures : SessionVerifyFail(f)
    \/ SessionCurrentUser

SpecUser == InitUser /\ [][NextUser]_vars

\* C21: what getCurrentUser() returned after a successful verification is
\* the user that verification answered with, and the token of the session
\* is still the one the login issued.
C21_VerifyRefreshesUser ==
    pure.fn = "session" /\ pure.verified # NoUser /\ pure.current # NoUser =>
        /\ pure.current = pure.verified
        /\ auth.token = issued

----
(***************************************************************************)
(* The request timeout, from the environment variable                      *)
(* UMAMI_CLIENT_TIMEOUT_MS.  Strings are sequences of characters; a        *)
(* JavaScript number is a record: NaN, of which every comparison is false, *)
(* or an integer.                                                          *)
(***************************************************************************)

NaN == [nan |-> TRUE, v |-> 0]
Number(n) == [nan |-> FALSE, v |-> n]

DecimalDigits == <<"0", "1", "2", "3", "4", "5", "6", "7", "8", "9">>
HexDigits == DecimalDigits \o <<"a", "b", "c", "d", "e", "f">>

\* The value of character c as a digit of the radix, or -1.
DigitValue(c, radix) ==
    LET ds == IF radix = 16 THEN HexDigits ELSE DecimalDigits
        at == {i \in 1..Len(ds) : ds[i] = c}
    IN  IF at = {} THEN -1 ELSE (CHOOSE i \in at : TRUE) - 1

RECURSIVE SkipSpaces(_, _)
SkipSpaces(s, i) == IF i <= Len(s) /\ s[i] = " " THEN SkipSpaces(s, i + 1) ELSE i

RECURSIVE ReadDigits(_, _, _, _)
\* The digits of s from position i on, added to acc, up to the first
\* character that is no digit.
ReadDigits(s, i, radix, acc) ==
    IF i <= Len(s) /\ DigitValue(s[i], radix) >= 0
    THEN ReadDigits(s, i + 1, radix, acc * radix + DigitValue(s[i], radix))
    ELSE acc

\* parseInt(s) without a radix: leading blanks and a sign are skipped, 0x
\* announces hexadecimal digits, the longest run of digits is read and the
\* rest is ignored; with no digit the result is NaN.
ParseInt(s) ==
    LET i0 == SkipSpaces(s, 1)
        neg == i0 <= Len(s) /\ s[i0] = "-"
        i1 == IF i0 <= Len(s) /\ s[i0] \in {"-", "+"} THEN i0 + 1 ELSE i0
        hex == i1 + 1 <= Len(s) /\ s[i1] = "0" /\ s[i1 + 1] \in {"x", "X"}
        radix == IF hex THEN 16 ELSE 10
        i2 == IF hex THEN i1 + 2 ELSE i1
    IN  IF i2 > Len(s) \/ DigitValue(s[i2], radix) < 0 THEN NaN
        ELSE IF neg THEN Number(0 - ReadDigits(s, i2, radix, 0))
        ELSE Number(ReadDigits(s, i2, radix, 0))

\* a < b and a > b of JavaScript numbers.
NumLess(a, b) == ~a.nan /\ ~b.nan /\ a.v < b.v
NumGreater(a, b) == ~a.nan /\ ~b.nan /\ a.v > b.v

\* The variable is not set.
EnvUnset == [set |-> FALSE, value |-> <<>>]
EnvSet(v) == [set |-> TRUE, value |-> v]

\* Characters tried in short values of the variable.
EnvChars == {"0", "1", "5", "x", "-", " "}
\* Values of UMAMI_CLIENT_TIMEOUT_MS: unset, every string of at most two of
\* the characters above, and values around the limits of the range.
TimeoutEnvs ==
    {EnvUnset}
    \cup {EnvSet(v) : v \in UNION {[1..n -> EnvChars] : n \in 0..2}}
    \cup {EnvSet(v) : v \in { <<"9", "9">>, <<"1", "0", "0">>, <<"2", "0", "0", "0">>,
                              <<"5", "0", "0", "0">>, <<"6", "0", "0", "0", "0">>,
                              <<"6", "0", "0", "0", "1">>, <<"a", "b", "c">>,
                              <<"3", "0", "0", "p", "x">>, <<"1", "e", "3">>,
                              <<"0", "x", "1", "0">>, <<"0", "x", "f", "f">> }}

\* DEFAULT_HTTP_CLIENT_TIMEOUT_MS of the client that reads the environment
\* in its method.
DEFAULT_TIMEOUT_MS == Number(2000)
MIN_TIMEOUT_MS == Number(100)
MAX_TIMEOUT_MS == Number(60000)

\* The string is falsy when it is empty.
Truthy(env) == env.set /\ env.value # <<>>

\* const DEFAULT_HTTP_CLIENT_TIMEOUT_MS =
\*     UMAMI_CLIENT_TIMEOUT_MS ? parseInt(UMAMI_CLIENT_TIMEOUT_MS) : 2000;
DEFAULT_HTTP_CLIENT_TIMEOUT_MS(env) ==
    IF Truthy(env) THEN ParseInt(env.value) ELSE DEFAULT_TIMEOUT_MS

\* getClientTimeoutMs(): parseInt(env || "2000"), then the range test.
GetClientTimeoutMs(env) ==
    LET timeout == IF Truthy(env) THEN ParseInt(env.value)
                   ELSE ParseInt(<<"2", "0", "0", "0">>)
    IN  IF NumLess(timeout, MIN_TIMEOUT_MS) \/ NumGreater(timeout, MAX_TIMEOUT_MS)
        THEN DEFAULT_TIMEOUT_MS ELSE timeout

\* A client is about to be created in a process with the variable as given;
\* its timeout comes from the module constant or, in the version that has
\* it, from getClientTimeoutMs.
InitTimeout ==
    /\ now = 0
    /\ ticks = 0
    /\ lastAuthCheck = 0
    /\ auth = [state |-> "pending", token |-> "none", err |-> NoError]
    /\ req = [i \in Ids |-> NoRequest]
    /\ wire = [u \in Urls |-> 0]
    /\ issued = "none"
    /\ console = {}
    /\ \E f \in {"defaults", "getClientTimeoutMs"}, e \in TimeoutEnvs :
          pure = [fn |-> f, pc |-> "start", env |-> e, timeout |-> Number(0)]

\* The module is loaded and axios.create({timeout: DEFAULT_HTTP_CLIENT_TIMEOUT_MS}) runs.
LoadDefaults ==
    /\ pure.fn = "defaults" /\ pure.pc = "start"
    /\ pure' = [pure EXCEPT !.pc = "done", !.timeout = DEFAULT_HTTP_CLIENT_TIMEOUT_MS(pure.env)]
    /\ UNCHANGED <<now, ticks, lastAuthCheck, auth, req, wire, issued, console>>

\* axios.create({timeout: this.getClientTimeoutMs()}) runs.
ClientTimeout ==
    /\ pure.fn = "getClientTimeoutMs" /\ pure.pc = "start"
    /\ pure' = [pure EXCEPT !.pc = "done", !.timeout = GetClientTimeoutMs(pure.env)]
    /\ UNCHANGED <<now, ticks, lastAuthCheck, auth, req, wire, issued, console>>

NextTimeout == LoadDefaults \/ ClientTimeout

SpecTimeout == InitTimeout /\ [][NextTimeout]_vars

\* C22: the timeout the client is created with is a number from 100 to
\* 60000, and it is 2000 when the variable is unset.
C22_TimeoutInRange ==
    pure.fn \in {"defaults", "getClientTimeoutMs"} /\ pure.pc = "done" =>
        /\ ~pure.timeout.nan
        /\ pure.timeout.v >= 100 /\ pure.timeout.v <= 60000
        /\ ~pure.env.set => pure.timeout.v = 2000

----
(***************************************************************************)
(* collect(type, payload, userAgent) of a client, and the static           *)
(* collect(server, type, payload, userAgent).  The user agent is a string; *)
(* Undefined stands for an argument, or an environment variable, that is   *)
(* not given.                                                              *)
(***************************************************************************)

FirefoxUserAgent ==
    "Mozilla/5.0 (Macintosh; Intel Mac OS X 10.15; rv:102.0) Gecko/20100101 Firefox/102.0"

\* Values of UMAMI_CLIENT_USER_AGENT.
UserAgentEnvs == {Undefined, "", "umami-bot/1.0"}
\* userAgent arguments.
UserAgentArgs == {Undefined, "", "curl/8.0"}
CollectTypes == {"pageview", "event"}
CollectPayloads ==
    { [website |-> "w1", url |-> "/", hostname |-> "u.x"],
      [website |-> "w1", url |-> "/buy", hostname |-> "u.x",
       event_name |-> "click", event_data |-> "{}"] }

\* UMAMI_CLIENT_USER_AGENT ?? "Mozilla/5.0 ..."
DEFAULT_USER_AGENT(env) == IF env = Undefined THEN FirefoxUserAgent ELSE env

\* userAgent: string = DEFAULT_USER_AGENT
UserAgentParameter(arg, env) == IF arg = Undefined THEN DEFAULT_USER_AGENT(env) ELSE arg

\* The test is left out.
UserAgentMissingNever(userAgent) == FALSE

\* !userAgent
UserAgentMissing(userAgent) == userAgent = ""

NoPost == [url |-> <<>>]
\* post(url, { type, payload }, { headers: { "User-Agent": userAgent } })
CollectPost(url, type, payload, userAgent) ==
    [url |-> url, data |-> [type |-> type, payload |-> payload],
     headers |-> [h \in {"User-Agent"} |-> userAgent]]

CollectPath == <<"/", "a", "p", "i", "/", "c", "o", "l", "l", "e", "c", "t">>
\* `https://${server}/api/collect`
StaticCollectUrl(server) == HttpsScheme \o server \o CollectPath

\* A call of collect on a constructed client, or of the static collect.
InitCollect ==
    /\ now = 0
    /\ ticks = 0
    /\ lastAuthCheck = 0
    /\ auth = [state |-> "pending", token |-> "none", err |-> NoError]
    /\ req = [i \in Ids |-> NoRequest]
    /\ wire = [u \in Urls |-> 0]
    /\ issued = "none"
    /\ console = {}
    /\ \E t \in CollectTypes, p \in CollectPayloads, ua \in UserAgentArgs, e \in UserAgentEnvs :
          \/ pure = [fn |-> "collect", pc |-> "start", server |-> <<>>, type |-> t,
                     payload |-> p, userAgent |-> ua, env |-> e, post |-> NoPost]
          \/ \E sv \in Servers :
                pure = [fn |-> "staticCollect", pc |-> "start", server |-> sv, type |-> t,
                        payload |-> p, userAgent |-> ua, env |-> e, post |-> NoPost]

\* collect(type, payload, userAgent) up to its await.
Collect ==
    /\ pure.fn = "collect" /\ pure.pc = "start"
    /\ LET userAgent == UserAgentParameter(pure.userAgent, pure.env) IN
       IF UserAgentMissing(userAgent)
       THEN /\ pure' = [pure EXCEPT !.pc = "thrown"]
            /\ UNCHANGED req
       ELSE /\ pure' = [pure EXCEPT !.pc = "awaitPost",
                           !.post = CollectPost(<<CollectUrl>>, pure.type, pure.payload, userAgent)]
            /\ req' = [req EXCEPT ![1] = NewRequest(CollectUrl)]
    /\ UNCHANGED <<now, ticks, lastAuthCheck, auth, wire, issued, console>>

\* The static collect(server, type, payload, userAgent) up to its await; the
\* request goes through axios itself, which has no interceptor.
StaticCollect ==
    /\ pure.fn = "staticCollect" /\ pure.pc = "start"
    /\ LET userAgent == UserAgentParameter(pure.userAgent, pure.env) IN
       IF pure.server = <<>>
       THEN pure' = [pure EXCEPT !.pc = "thrown"]
       ELSE IF UserAgentMissing(userAgent)
       THEN pure' = [pure EXCEPT !.pc = "thrown"]
       ELSE pure' = [pure EXCEPT !.pc = "awaitPost",
                        !.post = CollectPost(StaticCollectUrl(NormalizeServer(pure.server)),
                                             pure.type, pure.payload, userAgent)]
    /\ UNCHANGED <<now, ticks, lastAuthCheck, auth, req, wire, issued, console>>

\* The server answers POST /collect with 2xx: the call resolves.
CollectAnswered ==
    /\ pure.fn \in {"collect", "staticCollect"} /\ pure.pc = "awaitPost"
    /\ pure' = [pure EXCEPT !.pc = "resolved"]
    /\ req' = IF pure.fn = "collect" THEN [req EXCEPT ![1].pc = "resolved", ![1].sends = 1]
              ELSE req
    /\ wire' = [wire EXCEPT ![CollectUrl] = @ + 1]
    /\ UNCHANGED <<now, ticks, lastAuthCheck, auth, issued, console>>

\* POST /collect fails: the call rejects with the request's error.
CollectFails(f) ==
    /\ pure.fn \in {"collect", "staticCollect"} /\ pure.pc = "awaitPost"
    /\ pure' = [pure EXCEPT !.pc = "rejected"]
    /\ req' = IF pure.fn = "collect"
              THEN [req EXCEPT ![1].pc = "rejected", ![1].sends = 1, ![1].err = ErrorMessage(f)]
              ELSE req
    /\ wire' = [wire EXCEPT ![CollectUrl] = @ + 1]
    /\ UNCHANGED <<now, ticks, lastAuthCheck, auth, issued, console>>

NextCollect ==
    \/ Collect
    \/ StaticCollect
    \/ CollectAnswered
    \/ \E f \in Failures : CollectFails(f)

SpecCollect == InitCollect /\ [][NextCollect]_vars

\* The call is a collect that got past its server argument.
CollectRan ==
    /\ pure.fn \in {"collect", "staticCollect"} /\ pure.pc # "start"
    /\ pure.fn = "staticCollect" => pure.server # <<>>

\* C23 as stated: a call without userAgent always sends POST /collect with
\* the default User-Agent.
C23_Original ==
    CollectRan /\ pure.userAgent = Undefined =>
        /\ pure.pc # "thrown"
        /\ pure.post # NoPost

\* C23: a call with an empty userAgent, or without one while the default
\* from UMAMI_CLIENT_USER_AGENT is empty, fails with no request made; a call
\* without one otherwise sends that default; and every POST /collect that is
\* made carries a non-empty User-Agent, the argument or the default, and the
\* body {type, payload}.
C23_UserAgentRequired ==
    CollectRan =>
        /\ pure.userAgent = "" \/ (pure.userAgent = Undefined /\ pure.env = "") =>
              /\ pure.pc = "thrown"
              /\ pure.post = NoPost
              /\ \A i \in Ids : req[i] = NoRequest
              /\ wire[CollectUrl] = 0
        /\ pure.userAgent = Undefined /\ pure.env # "" =>
              /\ pure.pc # "thrown"
              /\ pure.post.headers["User-Agent"] =
                    IF pure.env = Undefined
                    THEN "Mozilla/5.0 (Macintosh; Intel Mac OS X 10.15; rv:102.0) Gecko/20100101 Firefox/102.0"
                    ELSE pure.env
        /\ pure.userAgent \notin {Undefined, ""} =>
              /\ pure.pc # "thrown"
              /\ pure.post.headers["User-Agent"] = pure.userAgent
        /\ pure.pc # "thrown" =>
              /\ pure.post.headers["User-Agent"] # ""
              /\ pure.post.data = [type |-> pure.type, payload |-> pure.payload]
              /\ pure.fn = "collect" =>
                    pure.post.url = <<"/collect">> /\ req[1].url = "/collect"

C23_Witness ==
    /\ pure.fn = "collect" /\ pure.pc = "resolved"
    /\ pure.userAgent = Undefined /\ pure.env = Undefined
    /\ pure.type = "event" /\ pure.post.data.type = "event"
    /\ pure.post.headers["User-Agent"] = FirefoxUserAgent
    /\ wire[CollectUrl] = 1

----
\* Positions of the server's list whose field key is the value asked for.
Matches == {i \in 1..Len(pure.server) :
               pure.server[i][pure.key] # "null" /\ pure.server[i][pure.key] = pure.value.v}

\* C27: getWebsiteBy resolves only with a website the server has.  For a
\* key other than shareId and id it asks once for /websites and resolves
\* with the first record, in the server's order, whose field is the value,
\* or rejects with "Could not find website" when there is none; for id it
\* asks for /websites/{value}; for shareId it asks for /share/{value} and
\* then for /websites/{id} with the id the share gave.
C27_FirstMatchOrThrow ==
    pure.fn = "getWebsiteBy" /\ pure.pc # "start" =>
        /\ pure.pc = "resolved" =>
              /\ Len(pure.result) = 1
              /\ \E i \in 1..Len(pure.server) : pure.result[1] = pure.server[i]
        /\ pure.key \notin {"shareId", "id"} =>
              /\ pure.gets = << <<"/websites">> >>
              /\ pure.pc \in {"resolved", "rejected", "awaitFind"}
              /\ pure.pc = "resolved" =>
                    /\ Matches # {}
                    /\ \E i \in Matches : /\ \A j \in Matches : i <= j
                                          /\ pure.result[1] = pure.server[i]
              /\ pure.pc = "rejected" =>
                    Matches = {} /\ pure.thrown = <<"Could not find website">>
        /\ pure.key = "id" =>
              /\ pure.gets = << <<"/websites/", pure.value.v>> >>
              /\ pure.pc = "resolved" => pure.result[1].id = pure.value.v
              /\ pure.pc = "rejected" =>
                    /\ \A i \in 1..Len(pure.server) : pure.server[i].id # pure.value.v
                    /\ pure.thrown = <<"Request failed with status code ", "404">>
        /\ pure.key = "shareId" =>
              /\ pure.gets[1] = <<"/share/", pure.value.v>>
              /\ pure.pc = "resolved" =>
                    /\ pure.result[1].shareId = pure.value.v
                    /\ pure.gets = << <<"/share/", pure.value.v>>,
                                      <<"/websites/", pure.result[1].id>> >>
              /\ pure.pc = "rejected" =>
                    /\ \A i \in 1..Len(pure.server) : pure.server[i].shareId # pure.value.v
                    /\ Len(pure.gets) = 1

\* Two websites are named dev; the one the server lists first is returned.
C27_Witness ==
    /\ pure.fn = "getWebsiteBy" /\ pure.pc = "resolved"
    /\ pure.key = "name" /\ pure.value = [t |-> "string", v |-> "dev"]
    /\ Len(pure.server) = 3
    /\ pure.server[1].id = "3" /\ pure.server[2].id = "4" /\ pure.server[3].id = "1"
    /\ pure.result[1].id = "4"
====
